---- MODULE Spec2Model ----
(***************************************************************************)
(* ICS 023 Merkle commitment types (x/ibc/23-commitment/types/merkle.go):  *)
(* MerkleRoot, MerklePrefix, MerklePath, ApplyPrefix and the chained       *)
(* MerkleProof with ValidateBasic, VerifyMembership, VerifyNonMembership.  *)
(*                                                                         *)
(* Byte strings that are hashes or values are small naturals, 0 being the  *)
(* nil / zero-length byte string.  Textual byte strings (key names, path   *)
(* renderings, prefixes) are sequences of one-character strings.           *)
(* A Go run-time panic (index out of range, nil interface call) is the     *)
(* result "panic".                                                         *)
(***************************************************************************)
EXTENDS Integers, Sequences, FiniteSets

VARIABLES call, proof, root, path, value, prefix, pathValid, done, ret, out

vars == <<call, proof, root, path, value, prefix, pathValid, done, ret, out>>

\* Longest chain of sub-proofs (and of specs) in a request.
MaxProofs == 2

\* Most key-path levels in a path: one more than the longest chain, so that
\* paths shorter than, as long as and longer than the chain all occur.
MaxLevels == MaxProofs + 1

\* Non-empty hashes / values.
Hashes == {1, 2}

SeqsUpTo(S, n) == UNION {[1..k -> S] : k \in 0..n}

---------------------------------------------------------------------------
(* MerkleRoot *)

NilRoot == [isNil |-> TRUE, Hash |-> 0]

NewMerkleRoot(hash) == [isNil |-> FALSE, Hash |-> hash]

GetHash(mr) == mr.Hash

RootIsEmpty(mr) == GetHash(mr) = 0

---------------------------------------------------------------------------
(* MerklePrefix *)

NilPrefix == [isNil |-> TRUE, KeyPrefix |-> <<>>]

NewMerklePrefix(keyPrefix) == [isNil |-> FALSE, KeyPrefix |-> keyPrefix]

PrefixBytes(mp) == mp.KeyPrefix

PrefixIsEmpty(mp) == Len(PrefixBytes(mp)) = 0

---------------------------------------------------------------------------
(* MerklePath.  A KeyPath is a sequence of keys [name, enc]; a path is a    *)
(* record of its dynamic type (kind) and its KeyPaths.  A path of another   *)
(* type than MerklePath answers IsEmpty with otherEmpty.                    *)

\* url.PathEscape on one character: "/" and "%" are escaped, letters kept.
EscapeChar(c) ==
    IF c = "/" THEN <<"%", "2", "F">>
    ELSE IF c = "%" THEN <<"%", "2", "5">>
    ELSE <<c>>

RECURSIVE PathEscape(_)
PathEscape(s) ==
    IF s = <<>> THEN <<>> ELSE EscapeChar(Head(s)) \o PathEscape(Tail(s))

\* merkle.KeyPath.AppendKey(name, KeyEncodingURL)
AppendKey(kp, name) == Append(kp, [name |-> name, enc |-> "URL"])

\* merkle.KeyPath.String(): "/" + escaped name, for every key.
RECURSIVE KeyPathString(_)
KeyPathString(kp) ==
    IF kp = <<>> THEN <<>>
    ELSE <<"/">> \o PathEscape(Head(kp).name) \o KeyPathString(Tail(kp))

RECURSIVE AppendKeys(_, _)
AppendKeys(kp, keyPathStr) ==
    IF keyPathStr = <<>> THEN kp
    ELSE AppendKeys(AppendKey(kp, Head(keyPathStr)), Tail(keyPathStr))

NilPath == [kind |-> "nil", KeyPaths |-> <<>>, otherEmpty |-> FALSE]

MerklePath(keyPaths) == [kind |-> "merkle", KeyPaths |-> keyPaths, otherEmpty |-> FALSE]

OtherPath(empty) == [kind |-> "other", KeyPaths |-> <<>>, otherEmpty |-> empty]

NewMerklePath(keyPathStr) == MerklePath(<<AppendKeys(<<>>, keyPathStr)>>)

RECURSIVE JoinLevels(_, _)
JoinLevels(keyPaths, i) ==
    IF i > Len(keyPaths) THEN <<>>
    ELSE (IF i # 1 THEN <<"/">> \o KeyPathString(keyPaths[i]) ELSE <<>>)
         \o JoinLevels(keyPaths, i + 1)

MerklePathString(mp) ==
    IF Len(mp.KeyPaths) = 0 THEN <<>>
    ELSE KeyPathString(mp.KeyPaths[1]) \o JoinLevels(mp.KeyPaths, 1)

PathIsEmpty(p) ==
    IF p.kind = "merkle" THEN Len(p.KeyPaths) = 0 ELSE p.otherEmpty

---------------------------------------------------------------------------
(* ApplyPrefix.  valid is the verdict of host.DefaultPathValidator on      *)
(* path.String().                                                          *)

PathResult(err, p) == [err |-> err, path |-> p]

\* ApplyPrefix with the type check made before the prefix check.
ApplyPrefix_TypeCheckFirst(pfx, p, valid) ==
    IF p.kind = "nil" THEN PathResult("panic", MerklePath(<<>>))
    ELSE IF ~valid THEN PathResult("InvalidPath", MerklePath(<<>>))
    ELSE IF p.kind # "merkle"
         THEN PathResult("NotAMerklePath", MerklePath(<<>>))
    ELSE IF pfx.isNil \/ PrefixIsEmpty(pfx)
         THEN PathResult("EmptyPrefix", MerklePath(<<>>))
    ELSE LET prefixPath == NewMerklePath(<<PrefixBytes(pfx)>>)
             kpath == prefixPath.KeyPaths \o p.KeyPaths
         IN  PathResult("nil", MerklePath(kpath))

\* ApplyPrefix with the prefix level appended after the path's levels.
ApplyPrefix_Appended(pfx, p, valid) ==
    IF p.kind = "nil" THEN PathResult("panic", MerklePath(<<>>))
    ELSE IF ~valid THEN PathResult("InvalidPath", MerklePath(<<>>))
    ELSE IF pfx.isNil \/ PrefixIsEmpty(pfx)
         THEN PathResult("EmptyPrefix", MerklePath(<<>>))
    ELSE IF p.kind # "merkle"
         THEN PathResult("NotAMerklePath", MerklePath(<<>>))
    ELSE LET prefixPath == NewMerklePath(<<PrefixBytes(pfx)>>)
             kpath == p.KeyPaths \o prefixPath.KeyPaths
         IN  PathResult("nil", MerklePath(kpath))

ApplyPrefix(pfx, p, valid) ==
    IF p.kind = "nil" THEN PathResult("panic", MerklePath(<<>>))
    ELSE IF ~valid THEN PathResult("InvalidPath", MerklePath(<<>>))
    ELSE IF pfx.isNil \/ PrefixIsEmpty(pfx)
         THEN PathResult("EmptyPrefix", MerklePath(<<>>))
    ELSE IF p.kind # "merkle"
         THEN PathResult("NotAMerklePath", MerklePath(<<>>))
    ELSE LET prefixPath == NewMerklePath(<<PrefixBytes(pfx)>>)
             kpath == prefixPath.KeyPaths \o p.KeyPaths
         IN  PathResult("nil", MerklePath(kpath))

---------------------------------------------------------------------------
(* The single-tree proof primitive (ics23).  A sub-proof is a record        *)
(*   variant : "Nil" (nil pointer), "Exist", "Nonexist" or "Batch",         *)
(*   key, value : the key and value the sub-proof is about (a Batch holds   *)
(*                one existence entry; a Nonexist has no value),            *)
(*   calc : the root Calculate yields from it (for a Nonexist, from its     *)
(*          Left neighbour), 0 when Calculate fails.                        *)

NilProof == [variant |-> "Nil", key |-> <<>>, value |-> 0, calc |-> 0]

NilSpec == "nil"

\* ExistenceProof.Calculate: the recomputed root, 0 for an error.
Calculate(p) == p.calc

\* ics23.VerifyMembership(spec, root, proof, key, value): takes the existence
\* proof for key out of an Exist or a Batch sub-proof (none in a Nonexist) and
\* accepts when its key and value are the given ones and it recomputes root.
ExtVerifyMembership(spec, rootHash, p, key, val) ==
    /\ spec # NilSpec
    /\ p.variant \in {"Exist", "Batch"}
    /\ p.key = key
    /\ p.value = val
    /\ p.calc # 0
    /\ p.calc = rootHash

\* ics23.VerifyNonMembership(spec, root, proof, key): accepts a Nonexist
\* sub-proof about key whose neighbour recomputes root.
ExtVerifyNonMembership(spec, rootHash, p, key) ==
    /\ spec # NilSpec
    /\ p.variant = "Nonexist"
    /\ p.key = key
    /\ p.calc # 0
    /\ p.calc = rootHash

---------------------------------------------------------------------------
(* MerkleProof: [Proofs, Specs].                                           *)

MerkleProof(proofs, specs) == [Proofs |-> proofs, Specs |-> specs]

\* The range loop of IsEmpty from index i (0-based): "true", "false", or
\* "panic" when Specs[i] is read past the end of Specs.
RECURSIVE IsEmptyLoop(_, _)
IsEmptyLoop(pf, i) ==
    IF i >= Len(pf.Proofs) THEN "false"
    ELSE IF pf.Proofs[i + 1].variant = "Nil" THEN "true"
    ELSE IF i >= Len(pf.Specs) THEN "panic"
    ELSE IF pf.Specs[i + 1] = NilSpec THEN "true"
    ELSE IsEmptyLoop(pf, i + 1)

IsEmpty(pf) ==
    IF Len(pf.Proofs) = 0 \/ Len(pf.Specs) = 0 THEN "true"
    ELSE IsEmptyLoop(pf, 0)

\* "nil", "InvalidProof", or "panic" when IsEmpty panics.
ValidateBasic(pf) ==
    LET e == IsEmpty(pf)
    IN  IF e = "panic" THEN "panic"
        ELSE IF e = "true" \/ Len(pf.Proofs) # Len(pf.Specs) THEN "InvalidProof"
        ELSE "nil"

---------------------------------------------------------------------------
(* Verification.  A result is the returned error ("nil" for success), the   *)
(* calls made to the external verifier (log) and the indices of the         *)
(* sub-proofs Calculate was called on (calcs).  A log entry holds the       *)
(* function called, the proof index i, the index of the spec passed, the    *)
(* path level whose rendering was passed as key, the root passed and        *)
(* whether that was the computed subroot or the trusted root (anchor), the  *)
(* value passed, and the verdict.                                           *)

Result(err, log, calcs) == [err |-> err, log |-> log, calcs |-> calcs]

Check(fn, i, level, anchor, rootHash, key, val, ok) ==
    [fn |-> fn, i |-> i, spec |-> i, level |-> level, anchor |-> anchor,
     root |-> rootHash, key |-> key, value |-> val, ok |-> ok]

\* The loop of VerifyMembership with the final check made against the
\* computed subroot, like every other check.
RECURSIVE MembershipLoop_NoAnchor(_, _, _, _, _, _, _)
MembershipLoop_NoAnchor(pf, rt, mpath, i, val, log, calcs) ==
    IF i >= Len(pf.Proofs) THEN Result("nil", log, calcs)
    ELSE
    LET level == Len(mpath.KeyPaths) - i - 1
        p == pf.Proofs[i + 1]
    IN  IF level < 0 THEN Result("panic", log, calcs)
        ELSE
        LET subpath == KeyPathString(mpath.KeyPaths[level + 1])
        IN  IF p.variant # "Exist" THEN Result("InvalidProof", log, calcs)
            ELSE
            LET subroot == Calculate(p)
                calcs2 == Append(calcs, i)
            IN  IF subroot = 0 THEN Result("InvalidProof", log, calcs2)
                ELSE
                LET ok == ExtVerifyMembership(pf.Specs[i + 1], subroot, p, subpath, val)
                    log2 == Append(log, Check("VerifyMembership", i, level,
                                   "subroot", subroot, subpath, val, ok))
                IN  IF ~ok THEN Result("InvalidProof", log2, calcs2)
                    ELSE MembershipLoop_NoAnchor(pf, rt, mpath, i + 1, subroot, log2, calcs2)

\* The loop of VerifyMembership from index i with the running value val.
RECURSIVE MembershipLoop(_, _, _, _, _, _, _)
MembershipLoop(pf, rt, mpath, i, val, log, calcs) ==
    IF i >= Len(pf.Proofs) THEN Result("nil", log, calcs)
    ELSE
    LET level == Len(mpath.KeyPaths) - i - 1
        p == pf.Proofs[i + 1]
    IN  IF level < 0 THEN Result("panic", log, calcs)
        ELSE
        LET subpath == KeyPathString(mpath.KeyPaths[level + 1])
        IN  IF p.variant # "Exist" THEN Result("InvalidProof", log, calcs)
            ELSE
            LET subroot == Calculate(p)
                calcs2 == Append(calcs, i)
            IN  IF subroot = 0 THEN Result("InvalidProof", log, calcs2)
                ELSE
                LET final == (i = Len(pf.Proofs) - 1)
                    against == IF final THEN GetHash(rt) ELSE subroot
                    ok == ExtVerifyMembership(pf.Specs[i + 1], against, p, subpath, val)
                    log2 == Append(log, Check("VerifyMembership", i, level,
                                   IF final THEN "root" ELSE "subroot",
                                   against, subpath, val, ok))
                IN  IF ~ok THEN Result("InvalidProof", log2, calcs2)
                    ELSE MembershipLoop(pf, rt, mpath, i + 1, subroot, log2, calcs2)

VerifyMembership(pf, rt, p, val) ==
    LET vb == ValidateBasic(pf)
    IN  IF vb = "panic" THEN Result("panic", <<>>, <<>>)
        ELSE IF \/ vb # "nil"
                \/ rt.isNil
                \/ RootIsEmpty(rt)
                \/ p.kind = "nil"
                \/ PathIsEmpty(p)
                \/ val = 0
             THEN Result("InvalidProof", <<>>, <<>>)
        ELSE IF p.kind # "merkle" THEN Result("InvalidProof", <<>>, <<>>)
        ELSE IF Len(pf.Proofs) = Len(p.KeyPaths) THEN Result("InvalidProof", <<>>, <<>>)
        ELSE MembershipLoop(pf, rt, p, 0, val, <<>>, <<>>)

\* The loop of VerifyNonMembership from index i with the running value val
\* and the last computed subroot.
RECURSIVE NonMembershipLoop(_, _, _, _, _, _, _, _)
NonMembershipLoop(pf, rt, mpath, i, val, subroot, log, calcs) ==
    IF i >= Len(pf.Proofs) THEN Result("nil", log, calcs)
    ELSE
    LET level == Len(mpath.KeyPaths) - i - 1
        p == pf.Proofs[i + 1]
    IN  IF level < 0 THEN Result("panic", log, calcs)
        ELSE
        LET subpath == KeyPathString(mpath.KeyPaths[level + 1])
        IN  IF i = 0 THEN
                IF p.variant # "Nonexist" THEN Result("InvalidProof", log, calcs)
                ELSE
                LET sr == Calculate(p)
                    calcs2 == Append(calcs, i)
                IN  IF sr = 0 THEN Result("InvalidProof", log, calcs2)
                    ELSE
                    LET ok == ExtVerifyNonMembership(pf.Specs[i + 1], sr, p, subpath)
                        log2 == Append(log, Check("VerifyNonMembership", i, level,
                                       "subroot", sr, subpath, 0, ok))
                    IN  IF ~ok THEN Result("InvalidProof", log2, calcs2)
                        ELSE NonMembershipLoop(pf, rt, mpath, i + 1, sr, sr, log2, calcs2)
            ELSE IF i # Len(pf.Proofs) - 1 THEN
                IF p.variant # "Exist" THEN Result("InvalidProof", log, calcs)
                ELSE
                LET sr == Calculate(p)
                    calcs2 == Append(calcs, i)
                IN  IF sr = 0 THEN Result("InvalidProof", log, calcs2)
                    ELSE
                    LET ok == ExtVerifyMembership(pf.Specs[i + 1], sr, p, subpath, val)
                        log2 == Append(log, Check("VerifyMembership", i, level,
                                       "subroot", sr, subpath, val, ok))
                    IN  IF ~ok THEN Result("InvalidProof", log2, calcs2)
                        ELSE NonMembershipLoop(pf, rt, mpath, i + 1, sr, sr, log2, calcs2)
            ELSE
                LET ok == ExtVerifyMembership(pf.Specs[i + 1], GetHash(rt), p, subpath, val)
                    log2 == Append(log, Check("VerifyMembership", i, level,
                                   "root", GetHash(rt), subpath, val, ok))
                IN  IF ~ok THEN Result("InvalidProof", log2, calcs)
                    ELSE NonMembershipLoop(pf, rt, mpath, i + 1, subroot, subroot, log2, calcs)

VerifyNonMembership(pf, rt, p) ==
    LET vb == ValidateBasic(pf)
    IN  IF vb = "panic" THEN Result("panic", <<>>, <<>>)
        ELSE IF \/ vb # "nil"
                \/ rt.isNil
                \/ RootIsEmpty(rt)
                \/ p.kind = "nil"
                \/ PathIsEmpty(p)
             THEN Result("InvalidProof", <<>>, <<>>)
        ELSE IF p.kind # "merkle" THEN Result("InvalidProof", <<>>, <<>>)
        ELSE IF Len(pf.Proofs) = Len(p.KeyPaths) THEN Result("InvalidProof", <<>>, <<>>)
        ELSE NonMembershipLoop(pf, rt, p, 0, 0, 0, <<>>, <<>>)

---------------------------------------------------------------------------
(* Requests.  A request is one call with its arguments; arguments the      *)
(* called function does not take are left at a default.                    *)

KA == AppendKey(<<>>, <<"a">>)

KB == AppendKey(<<>>, <<"b">>)

KAB == AppendKey(AppendKey(<<>>, <<"a">>), <<"/", "b">>)

\* The keys sub-proofs are about: renderings of one-segment key paths.
ProofKeys == {KeyPathString(KA), KeyPathString(KB)}

\* n levels, alternately KA and KB.
AltLevels(n) == [j \in 1..n |-> IF j % 2 = 1 THEN KA ELSE KB]

ExistProofs ==
    {[variant |-> "Exist", key |-> k, value |-> v, calc |-> c] :
        k \in ProofKeys, v \in Hashes, c \in {0} \cup Hashes}

NonexistProofs ==
    {[variant |-> "Nonexist", key |-> k, value |-> 0, calc |-> c] :
        k \in ProofKeys, c \in {0} \cup Hashes}

BatchProofs ==
    {[variant |-> "Batch", key |-> k, value |-> v, calc |-> c] :
        k \in ProofKeys, v \in Hashes, c \in Hashes}

SomeExist == [variant |-> "Exist", key |-> KeyPathString(KA), value |-> 1, calc |-> 1]

SomeNonexist == [variant |-> "Nonexist", key |-> KeyPathString(KA), value |-> 0, calc |-> 1]

\* Proofs of every shape: any two lengths, nil entries anywhere.
ShapeProofs ==
    {MerkleProof(ps, ss) :
        ps \in SeqsUpTo({NilProof, SomeExist, SomeNonexist}, MaxProofs),
        ss \in SeqsUpTo({NilSpec, "iavl"}, MaxProofs)}

\* Well-formed chains of every content.
ChainProofs ==
    {MerkleProof(ps, [j \in 1..Len(ps) |-> "iavl"]) :
        ps \in SeqsUpTo(ExistProofs \cup NonexistProofs \cup BatchProofs, MaxProofs) \ {<<>>}}

ShapePaths ==
    {NilPath, OtherPath(TRUE), OtherPath(FALSE)}
        \cup {MerklePath(AltLevels(n)) : n \in 0..MaxLevels}

ChainPaths == {MerklePath(ls) : ls \in SeqsUpTo({KA, KB}, MaxLevels) \ {<<>>}}

ShapeRoots == {NilRoot, NewMerkleRoot(0), NewMerkleRoot(1), NewMerkleRoot(2)}

PrefixArgs ==
    {NilPrefix, NewMerklePrefix(<<>>), NewMerklePrefix(<<"i">>), NewMerklePrefix(<<"i", "/">>)}

PrefixPaths ==
    {NilPath, OtherPath(FALSE)}
        \cup {MerklePath(ls) : ls \in SeqsUpTo({KA, KB, KAB}, MaxLevels)}

NoResult == Result("none", <<>>, <<>>)

Request(c, pf, rt, p, val, pfx, valid) ==
    /\ call = c
    /\ proof = pf
    /\ root = rt
    /\ path = p
    /\ value = val
    /\ prefix = pfx
    /\ pathValid = valid

Init ==
    /\ done = FALSE
    /\ ret = NoResult
    /\ out = NilPath
    /\ \/ \E pf \in ShapeProofs \cup ChainProofs :
             Request("ValidateBasic", pf, NilRoot, NilPath, 0, NilPrefix, TRUE)
       \/ \E pf \in ShapeProofs, rt \in ShapeRoots, p \in ShapePaths, val \in {0} \cup Hashes :
             Request("VerifyMembership", pf, rt, p, val, NilPrefix, TRUE)
       \/ \E pf \in ChainProofs, p \in ChainPaths, val \in Hashes :
             Request("VerifyMembership", pf, NewMerkleRoot(1), p, val, NilPrefix, TRUE)
       \/ \E pf \in ShapeProofs, rt \in ShapeRoots, p \in ShapePaths :
             Request("VerifyNonMembership", pf, rt, p, 0, NilPrefix, TRUE)
       \/ \E pf \in ChainProofs, p \in ChainPaths :
             Request("VerifyNonMembership", pf, NewMerkleRoot(1), p, 0, NilPrefix, TRUE)
       \/ \E pfx \in PrefixArgs, p \in PrefixPaths, valid \in BOOLEAN :
             Request("ApplyPrefix", MerkleProof(<<>>, <<>>), NilRoot, p, 0, pfx, valid)

args == <<call, proof, root, path, value, prefix, pathValid>>

CallValidateBasic ==
    /\ call = "ValidateBasic" /\ ~done
    /\ done' = TRUE
    /\ ret' = Result(ValidateBasic(proof), <<>>, <<>>)
    /\ UNCHANGED <<args, out>>

CallVerifyMembership ==
    /\ call = "VerifyMembership" /\ ~done
    /\ done' = TRUE
    /\ ret' = VerifyMembership(proof, root, path, value)
    /\ UNCHANGED <<args, out>>

CallVerifyNonMembership ==
    /\ call = "VerifyNonMembership" /\ ~done
    /\ done' = TRUE
    /\ ret' = VerifyNonMembership(proof, root, path)
    /\ UNCHANGED <<args, out>>

CallApplyPrefix ==
    /\ call = "ApplyPrefix" /\ ~done
    /\ done' = TRUE
    /\ LET r == ApplyPrefix(prefix, path, pathValid)
       IN  /\ ret' = Result(r.err, <<>>, <<>>)
           /\ out' = r.path
    /\ UNCHANGED args

Next ==
    \/ CallValidateBasic
    \/ CallVerifyMembership
    \/ CallVerifyNonMembership
    \/ CallApplyPrefix

Spec == Init /\ [][Next]_vars

---------------------------------------------------------------------------
(* Properties.                                                             *)

N == Len(proof.Proofs)

Verifying == done /\ call \in {"VerifyMembership", "VerifyNonMembership"}

\* The external verifier accepts every level of the chain pf over the path
\* levels of p: level i against its own computed subroot, the last level
\* against the trusted root, each subroot being the value of the next level.
ChainAccepted(pf, rt, p, val) ==
    \A i \in 0..(Len(pf.Proofs) - 1) :
        LET sp == pf.Proofs[i + 1]
            last == (i = Len(pf.Proofs) - 1)
        IN  /\ sp.variant = "Exist"
            /\ Calculate(sp) # 0
            /\ ExtVerifyMembership(pf.Specs[i + 1],
                                   IF last THEN GetHash(rt) ELSE Calculate(sp),
                                   sp,
                                   KeyPathString(p.KeyPaths[Len(pf.Proofs) - i]),
                                   IF i = 0 THEN val ELSE Calculate(pf.Proofs[i]))

\* C1: a chain of N >= 1 Existence sub-proofs with N specs over a path of
\* exactly N levels, with non-empty root and value, every level of which the
\* external verifier accepts, makes VerifyMembership return success.
C1_ValidChainAccepted ==
    ( /\ done /\ call = "VerifyMembership"
      /\ N >= 1
      /\ Len(proof.Specs) = N
      /\ path.kind = "merkle"
      /\ Len(path.KeyPaths) = N
      /\ ~root.isNil /\ ~RootIsEmpty(root)
      /\ value # 0
      /\ ChainAccepted(proof, root, path, value) )
    => ret.err = "nil"

\* C2: when the sub-proof list and the spec list differ in length,
\* ValidateBasic returns InvalidProof, and both verification entry points
\* return InvalidProof without a call to Calculate or the external verifier.
C2_LengthMismatchRejected ==
    (done /\ Len(proof.Proofs) # Len(proof.Specs))
    => /\ call = "ValidateBasic" => ret.err = "InvalidProof"
       /\ call \in {"VerifyMembership", "VerifyNonMembership"}
            => ret = Result("InvalidProof", <<>>, <<>>)

\* C3: every successful VerifyNonMembership has checked the final sub-proof
\* (index N-1) with the external verifier against the trusted root.
C3_NonMembershipAnchored ==
    (done /\ call = "VerifyNonMembership" /\ ret.err = "nil")
    => \E k \in 1..Len(ret.log) :
          /\ ret.log[k].i = N - 1
          /\ ret.log[k].root = GetHash(root)

\* C4: VerifyMembership and VerifyNonMembership return InvalidProof, with no
\* call to Calculate or the external verifier, whenever the proof fails
\* ValidateBasic, the root is nil or empty, the path is nil or empty, or (for
\* VerifyMembership) the value has zero length.
C4_PreconditionsRejected ==
    ( /\ Verifying
      /\ \/ ValidateBasic(proof) = "InvalidProof"
         \/ root.isNil
         \/ RootIsEmpty(root)
         \/ path.kind = "nil"
         \/ PathIsEmpty(path)
         \/ (call = "VerifyMembership" /\ value = 0) )
    => ret = Result("InvalidProof", <<>>, <<>>)

\* C5: VerifyNonMembership returns success only if sub-proof 0 is the
\* NonExistence variant and every sub-proof at an index i >= 1, the final one
\* included, is the Existence variant.
C5_NonMembershipVariants ==
    (done /\ call = "VerifyNonMembership" /\ ret.err = "nil")
    => /\ proof.Proofs[1].variant = "Nonexist"
       /\ \A j \in 2..N : proof.Proofs[j].variant = "Exist"

\* C6 as claimed: ApplyPrefix with a nil or empty prefix fails with
\* EmptyPrefix for every path argument, well-formed, rejected by the path
\* validator or not a MerklePath.
C6_EmptyPrefixAlways ==
    ( /\ done /\ call = "ApplyPrefix"
      /\ path.kind \in {"merkle", "other"}
      /\ (prefix.isNil \/ PrefixIsEmpty(prefix)) )
    => ret.err = "EmptyPrefix"

\* C6 as amended: ApplyPrefix with a nil or empty prefix fails with
\* EmptyPrefix for every non-nil path the path validator accepts, MerklePath
\* or not; for a path the validator rejects it fails with the validator's
\* error instead.
C6_EmptyPrefixAfterValidation ==
    ( /\ done /\ call = "ApplyPrefix"
      /\ path.kind \in {"merkle", "other"}
      /\ (prefix.isNil \/ PrefixIsEmpty(prefix)) )
    => ret.err = (IF pathValid THEN "EmptyPrefix" ELSE "InvalidPath")

C6_Witness ==
    /\ done /\ call = "ApplyPrefix"
    /\ path.kind = "other"
    /\ ~prefix.isNil /\ PrefixIsEmpty(prefix)
    /\ pathValid
    /\ ret.err = "EmptyPrefix"

\* C7: a successful ApplyPrefix on a non-empty prefix and a path of M levels
\* returns M+1 levels, level 0 being the one-segment level built from the
\* prefix bytes and levels 1..M the input's levels in order (so that, for
\* M >= 1, the result renders as the prefix level, "/", then the input path);
\* the call leaves the input path and the prefix unchanged.
C7_PrefixPrepended ==
    [][ (call = "ApplyPrefix" /\ ~done /\ done' /\ ret'.err = "nil")
        => /\ ~prefix.isNil /\ ~PrefixIsEmpty(prefix)
           /\ path.kind = "merkle"
           /\ out'.kind = "merkle"
           /\ Len(out'.KeyPaths) = Len(path.KeyPaths) + 1
           /\ out'.KeyPaths[1] = <<[name |-> PrefixBytes(prefix), enc |-> "URL"]>>
           /\ \A j \in 1..Len(path.KeyPaths) : out'.KeyPaths[j + 1] = path.KeyPaths[j]
           /\ Len(path.KeyPaths) >= 1
                => MerklePathString(out') =
                     <<"/">> \o PathEscape(PrefixBytes(prefix)) \o <<"/">>
                        \o MerklePathString(path)
           /\ path' = path
           /\ prefix' = prefix ]_vars

C7_Witness ==
    /\ done /\ call = "ApplyPrefix"
    /\ ret.err = "nil"
    /\ PrefixBytes(prefix) = <<"i", "/">>
    /\ Len(path.KeyPaths) = 2
    /\ path.KeyPaths[1] # path.KeyPaths[2]
    /\ Len(out.KeyPaths) = 3

\* C8: in every run that reaches the loop, sub-proof i is checked with the
\* key of path level N-1-i, N being the number of sub-proofs; the last
\* sub-proof is thus paired with path level 0.
C8_ReversePairing ==
    Verifying
    => \A k \in 1..Len(ret.log) : ret.log[k].level = N - 1 - ret.log[k].i

\* C9: VerifyMembership succeeds only if every iteration's check succeeded
\* along one chain: the check at index 0 used the caller's value, the check
\* at i >= 1 the subroot computed from sub-proof i-1; every check at i < N-1
\* was made against the subroot of sub-proof i and the check at N-1 against
\* the trusted root; the first failing check ends the call with InvalidProof
\* and no later sub-proof is examined.
C9_MembershipChain ==
    (done /\ call = "VerifyMembership")
    => /\ \A k \in 1..Len(ret.log) :
            LET e == ret.log[k]
            IN  /\ e.fn = "VerifyMembership"
                /\ e.i = k - 1
                /\ e.value = (IF k = 1 THEN value ELSE Calculate(proof.Proofs[k - 1]))
                /\ e.anchor = (IF k < N THEN "subroot" ELSE "root")
                /\ e.root = (IF k < N THEN Calculate(proof.Proofs[k]) ELSE GetHash(root))
                /\ e.ok = ExtVerifyMembership(proof.Specs[k], e.root, proof.Proofs[k],
                                              e.key, e.value)
                /\ k < Len(ret.log) => e.ok
                /\ ~e.ok => ret.err = "InvalidProof" /\ Len(ret.calcs) = k
       /\ ret.err = "nil"
            => /\ Len(ret.log) = N
               /\ \A k \in 1..N : ret.log[k].ok

C9_Witness ==
    /\ done /\ call = "VerifyMembership"
    /\ ret.err = "nil"
    /\ N = 2
    /\ Calculate(proof.Proofs[1]) # GetHash(root)
    /\ Len(ret.log) = 2

\* C10: VerifyMembership and VerifyNonMembership end with success or with
\* InvalidProof on every input: no read of a path level or of a spec is out
\* of range.
C10_NoAbort ==
    Verifying => ret.err \in {"nil", "InvalidProof"}

====
